---- MODULE Spec2Model ----
(***************************************************************************)
(* A model of the namespace-resolution and source-rewriting engine of the  *)
(* Avalonia Templates extension (src/src/extension.ts).                    *)
(*                                                                         *)
(* Strings are TLA+ strings; TLC evaluates Len, SubSeq and \o on them, so  *)
(* the JavaScript string operations are modelled character by character,   *)
(* with JavaScript's 0-based offsets.                                      *)
(***************************************************************************)
EXTENDS Integers, Sequences, FiniteSets, TLC

-----------------------------------------------------------------------------
(* JavaScript string operations, as the code uses them.                    *)

Min(S) == CHOOSE k \in S : \A j \in S : k <= j

Max(S) == CHOOSE k \in S : \A j \in S : k >= j

\* The clamping of String.prototype.indexOf / substring arguments.
Clamp(i, n) == IF i < 0 THEN 0 ELSE IF i > n THEN n ELSE i

\* s.indexOf(t, from): the least offset >= from at which t occurs, or -1.
IndexOf(s, t, from) ==
  LET p == Clamp(from, Len(s))
      hits == {k \in p..(Len(s) - Len(t)) : SubSeq(s, k + 1, k + Len(t)) = t}
  IN IF hits = {} THEN -1 ELSE Min(hits)

\* s.lastIndexOf(t)
LastIndexOf(s, t) ==
  LET hits == {k \in 0..(Len(s) - Len(t)) : SubSeq(s, k + 1, k + Len(t)) = t}
  IN IF hits = {} THEN -1 ELSE Max(hits)

\* s.substring(a, b): both ends clamped to 0..length, swapped when a > b.
Substring(s, a, b) ==
  LET ca == Clamp(a, Len(s))
      cb == Clamp(b, Len(s))
  IN IF ca <= cb THEN SubSeq(s, ca + 1, cb) ELSE SubSeq(s, cb + 1, ca)

\* s.substring(a)
SubstringFrom(s, a) == Substring(s, a, Len(s))

\* s.includes(t)
Includes(s, t) == IndexOf(s, t, 0) # -1

\* s.endsWith(t)
EndsWith(s, t) ==
  /\ Len(t) <= Len(s)
  /\ SubSeq(s, Len(s) - Len(t) + 1, Len(s)) = t

\* s.replace(pat, rep) with a string pattern: the first occurrence only.
Replace(s, pat, rep) ==
  LET i == IndexOf(s, pat, 0)
  IN IF i = -1 THEN s
     ELSE Substring(s, 0, i) \o rep \o SubstringFrom(s, i + Len(pat))

\* s.split(sepr) for a non-empty separator.
RECURSIVE Split(_, _)
Split(s, sepr) ==
  LET i == IndexOf(s, sepr, 0)
  IN IF i = -1 THEN <<s>>
     ELSE <<Substring(s, 0, i)>> \o Split(SubstringFrom(s, i + Len(sepr)), sepr)

\* parts.join(d)
RECURSIVE Join(_, _)
Join(parts, d) ==
  IF Len(parts) = 0 THEN ""
  ELSE IF Len(parts) = 1 THEN parts[1]
  ELSE parts[1] \o d \o Join(Tail(parts), d)

\* The character of s at 0-based offset i ("" past the end).
CharAt(s, i) == IF i >= 0 /\ i < Len(s) THEN SubSeq(s, i + 1, i + 1) ELSE ""

\* The characters the regular expression class \s matches, among those the
\* model's texts contain.
Whitespace == {" ", "\t", "\r", "\n"}

-----------------------------------------------------------------------------
(* The file system and the request, as the code sees them.                 *)

VARIABLES
  platform,     \* "win32" or "posix": decides path.sep
  dirs,         \* the directories that exist, each a path (a sequence of names)
  listing,      \* dirs -> the names of the files fs.readdirSync lists in it
  unreadable,   \* the directories fs.readdirSync throws on
  files,        \* the generated files and the base-class file: exists, content
  req,          \* the parameters of executeTemplateCreation
  pc,           \* the position of the request in executeTemplateCreation
  namespaces,   \* the value findNameSpaces returned last
  vm,           \* the locals of createViewModel
  thrown,       \* the message of the error that reached the outer catch
  shown,        \* the message handleCreationError showed and rethrew
  execLog,      \* the commands childProcess.execSync was given, in order
  last          \* the operation performed last, with its input and output

vars == <<platform, dirs, listing, unreadable, files, req, pc, namespaces, vm,
          thrown, shown, execLog, last>>

\* path.sep
PathSep == IF platform = "win32" THEN "\\" ELSE "/"

\* The result "no directory" of the root search (string | null in the code).
null == <<"">>

-----------------------------------------------------------------------------
(* getTemplateConfiguration and the markers of updateTemplateNamespaces.   *)

TemplateTypes ==
  {"Window", "UserControl", "TemplatedControl", "Styles", "ResourceDictionary"}

getTemplateConfiguration(templateType) ==
  CASE templateType = "Window" ->
         [typeName |-> "Window", dotnetTemplate |-> "avalonia.window",
          supportsViewModel |-> TRUE, requiresNamespaceUpdate |-> TRUE]
    [] templateType = "UserControl" ->
         [typeName |-> "UserControl", dotnetTemplate |-> "avalonia.usercontrol",
          supportsViewModel |-> TRUE, requiresNamespaceUpdate |-> TRUE]
    [] templateType = "TemplatedControl" ->
         [typeName |-> "TemplatedControl", dotnetTemplate |-> "avalonia.templatedcontrol",
          supportsViewModel |-> FALSE, requiresNamespaceUpdate |-> TRUE]
    [] templateType = "Styles" ->
         [typeName |-> "Styles", dotnetTemplate |-> "avalonia.styles",
          supportsViewModel |-> FALSE, requiresNamespaceUpdate |-> FALSE]
    [] templateType = "ResourceDictionary" ->
         [typeName |-> "ResourceDictionary", dotnetTemplate |-> "avalonia.resource",
          supportsViewModel |-> FALSE, requiresNamespaceUpdate |-> FALSE]

frontendModifiedStartContent(templateType) ==
  IF templateType = "TemplatedControl" THEN "xmlns:controls=\"using:" ELSE "x:Class=\""

frontendModifiedEndContent(templateType) ==
  IF templateType = "TemplatedControl" THEN "\">" ELSE "\""

backendModifiedStartContent == "namespace "

backendModifiedEndContent == ";"

-----------------------------------------------------------------------------
(* changeFileContent: the region substitution.                             *)

\* namespaceToUse without the exception for the templated control.
NamespaceToUseOfCodeOnly(args) ==
  IF args.isCSharpFile THEN args.csharpNameSpace ELSE args.xamlNameSpace

\* namespaceToUse of changeFileContent
NamespaceToUse(args) ==
  IF args.isCSharpFile \/ args.templateType = "TemplatedControl"
  THEN args.csharpNameSpace
  ELSE args.xamlNameSpace

\* modifiedData with the end marker searched from the start of the text.
ModifiedDataEndFromStart(fileContent, args) ==
  LET modifiedStartIndex ==
        IndexOf(fileContent, args.startContent, 0) + Len(args.startContent)
      modifiedEndIndex == IndexOf(fileContent, args.endContent, 0)
  IN Substring(fileContent, 0, modifiedStartIndex)
       \o NamespaceToUse(args)
       \o SubstringFrom(fileContent, modifiedEndIndex)

\* modifiedData of changeFileContent: neither indexOf result is tested for -1.
ModifiedData(fileContent, args) ==
  LET modifiedStartIndex ==
        IndexOf(fileContent, args.startContent, 0) + Len(args.startContent)
      modifiedEndIndex == IndexOf(fileContent, args.endContent, modifiedStartIndex)
  IN Substring(fileContent, 0, modifiedStartIndex)
       \o NamespaceToUse(args)
       \o SubstringFrom(fileContent, modifiedEndIndex)

-----------------------------------------------------------------------------
(* path.relative, fs.readdirSync and the root search.                      *)

\* The names directories carry, in directory-listing order.
NameOrder == <<"Lib", "ViewModels", "Views">>

Names == {NameOrder[i] : i \in DOMAIN NameOrder}

IsPrefix(p, q) == Len(p) <= Len(q) /\ SubSeq(q, 1, Len(p)) = p

\* path.relative(from, to) of two absolute, normalised directory paths: one
\* ".." for each segment of `from` below the common ancestor, then the
\* segments of `to` below it, joined with path.sep.
PathRelative(from, to) ==
  LET shorter == IF Len(from) <= Len(to) THEN Len(from) ELSE Len(to)
      common == Max({k \in 0..shorter : SubSeq(from, 1, k) = SubSeq(to, 1, k)})
      ups == [i \in 1..(Len(from) - common) |-> ".."]
  IN Join(ups \o SubSeq(to, common + 1, Len(to)), PathSep)

\* The subdirectories of dir, in directory-listing order.
SubDirs(dir) ==
  LET all == [i \in DOMAIN NameOrder |-> Append(dir, NameOrder[i])]
  IN SelectSeq(all, LAMBDA d : d \in dirs)

\* fs.readdirSync(dir) of a readable directory: the names of its entries.
Readdir(dir) ==
  listing[dir] \o [i \in DOMAIN SubDirs(dir) |-> SubDirs(dir)[i][Len(dir) + 1]]

\* The test that reads the listing of an unreadable directory all the same.
containsSolutionOrProjectOfAny(dir) ==
  IF dir \notin dirs
  THEN FALSE
  ELSE \E i \in DOMAIN Readdir(dir) :
         EndsWith(Readdir(dir)[i], ".sln") \/ EndsWith(Readdir(dir)[i], ".csproj")

containsSolutionOrProject(dir) ==
  IF dir \notin dirs \/ dir \in unreadable
  THEN FALSE    \* readdirSync throws, the catch returns false
  ELSE \E i \in DOMAIN Readdir(dir) :
         EndsWith(Readdir(dir)[i], ".sln") \/ EndsWith(Readdir(dir)[i], ".csproj")

RECURSIVE findSolutionOrProjectRecursive(_)
RECURSIVE SearchItems(_, _)

\* The loop testing every item before it descends into any.
SearchItemsSiblingsFirst(items, i) ==
  LET marked == {k \in i..Len(items) : containsSolutionOrProject(items[k])}
      found == {k \in i..Len(items) : findSolutionOrProjectRecursive(items[k]) # null}
  IN IF marked # {} THEN items[Min(marked)]
     ELSE IF found # {} THEN findSolutionOrProjectRecursive(items[Min(found)])
     ELSE null

\* The for loop of findSolutionOrProjectRecursive from item i on.
SearchItems(items, i) ==
  IF i > Len(items) THEN null
  ELSE IF containsSolutionOrProject(items[i]) THEN items[i]
  ELSE LET result == findSolutionOrProjectRecursive(items[i])
       IN IF result # null THEN result ELSE SearchItems(items, i + 1)

findSolutionOrProjectRecursive(dir) ==
  IF dir \notin dirs \/ dir \in unreadable
  THEN null     \* readdirSync throws, the catch logs, null is returned
  ELSE SearchItems(SubDirs(dir), 1)

\* The search without the test of the start directory itself.
findSolutionOrProjectDirectoryBelowOnly(startDir) ==
  findSolutionOrProjectRecursive(startDir)

findSolutionOrProjectDirectory(startDir) ==
  IF containsSolutionOrProject(startDir) THEN startDir
  ELSE findSolutionOrProjectRecursive(startDir)

-----------------------------------------------------------------------------
(* analyzeSolutionDirectory, constructNamespace, findNameSpaces.           *)

analyzeSolutionDirectory(solutionDir) ==
  LET entries == Readdir(solutionDir)
      isSolutionDir == \E i \in DOMAIN entries : EndsWith(entries[i], ".sln")
      csprojAt == {i \in DOMAIN entries : EndsWith(entries[i], ".csproj")}
      projectName ==
        IF ~isSolutionDir /\ csprojAt # {}
        THEN Replace(entries[Min(csprojAt)], ".csproj", "")
        ELSE ""
  IN [isSolutionDir |-> isSolutionDir, projectName |-> projectName]

\* constructNamespace appending the file name without the dot.
constructNamespaceNoDot(createPath, solutionDir, fileName, isSolutionDir, projectName) ==
  LET relativePath == PathRelative(solutionDir, createPath)
      joined == Join(SelectSeq(Split(relativePath, PathSep), LAMBDA part : part # ""), ".")
      namespace == IF joined # "" THEN joined \o fileName ELSE fileName
  IN IF ~isSolutionDir /\ projectName # ""
     THEN projectName \o "." \o namespace
     ELSE namespace

constructNamespace(createPath, solutionDir, fileName, isSolutionDir, projectName) ==
  LET relativePath == PathRelative(solutionDir, createPath)
      joined == Join(SelectSeq(Split(relativePath, PathSep), LAMBDA part : part # ""), ".")
      namespace == IF joined # "" THEN joined \o "." \o fileName ELSE fileName
  IN IF ~isSolutionDir /\ projectName # ""
     THEN projectName \o "." \o namespace
     ELSE namespace

\* csharpNameSpace cut at the first dot instead of the last.
CodeNamespaceFirstDot(namespace) ==
  IF Includes(namespace, ".")
  THEN Substring(namespace, 0, IndexOf(namespace, ".", 0))
  ELSE namespace

\* csharpNameSpace of findNameSpaces
CodeNamespace(namespace) ==
  IF Includes(namespace, ".")
  THEN Substring(namespace, 0, LastIndexOf(namespace, "."))
  ELSE namespace

\* findNameSpaces that answers a missing root with a namespace made of the
\* entity name alone instead of throwing.
findNameSpacesDegraded(createPath, projectPath, fileName) ==
  LET solutionDir == findSolutionOrProjectDirectory(projectPath)
  IN IF solutionDir = null
     THEN [error |-> "", solutionDir |-> null,
           xamlNameSpace |-> fileName, csharpNameSpace |-> CodeNamespace(fileName)]
     ELSE LET a == analyzeSolutionDirectory(solutionDir)
              namespace == constructNamespace(createPath, solutionDir, fileName,
                                              a.isSolutionDir, a.projectName)
          IN IF namespace = ""
             THEN [error |-> "Namespace not found.",
                   solutionDir |-> solutionDir, xamlNameSpace |-> "", csharpNameSpace |-> ""]
             ELSE [error |-> "",
                   solutionDir |-> solutionDir,
                   xamlNameSpace |-> namespace,
                   csharpNameSpace |-> CodeNamespace(namespace)]

\* findNameSpaces: what it throws ("" when it returns) and what it returns.
findNameSpaces(createPath, projectPath, fileName) ==
  LET solutionDir == findSolutionOrProjectDirectory(projectPath)
  IN IF solutionDir = null
     THEN [error |-> "Solution or project file not found in workspace.",
           solutionDir |-> null, xamlNameSpace |-> "", csharpNameSpace |-> ""]
     ELSE LET a == analyzeSolutionDirectory(solutionDir)
              namespace == constructNamespace(createPath, solutionDir, fileName,
                                              a.isSolutionDir, a.projectName)
          IN IF namespace = ""
             THEN [error |-> "Namespace not found.",
                   solutionDir |-> solutionDir, xamlNameSpace |-> "", csharpNameSpace |-> ""]
             ELSE [error |-> "",
                   solutionDir |-> solutionDir,
                   xamlNameSpace |-> namespace,
                   csharpNameSpace |-> CodeNamespace(namespace)]

-----------------------------------------------------------------------------
(* inheritFromViewModelBaseIfExists and its two namespace scans.           *)

\* content.match(/namespace\s+([^\s;]+)/): the leftmost offset at which the
\* word is followed by one or more whitespace characters and then by a
\* character that is neither whitespace nor ';'; the group is the longest
\* run of such characters from there.
RECURSIVE SkipWhile(_, _, _)
SkipWhile(s, i, class) ==
  IF i < Len(s) /\ CharAt(s, i) \in class THEN SkipWhile(s, i + 1, class) ELSE i

RECURSIVE SkipUntil(_, _, _)
SkipUntil(s, i, class) ==
  IF i < Len(s) /\ CharAt(s, i) \notin class THEN SkipUntil(s, i + 1, class) ELSE i

NamespaceMatch(content) ==
  LET word == "namespace"
      groupStart(k) == SkipWhile(content, k + Len(word), Whitespace)
      matches == {k \in 0..(Len(content) - Len(word)) :
                    /\ SubSeq(content, k + 1, k + Len(word)) = word
                    /\ groupStart(k) > k + Len(word)
                    /\ groupStart(k) < Len(content)
                    /\ CharAt(content, groupStart(k)) # ";"}
  IN IF matches = {} THEN [matched |-> FALSE, group |-> ""]
     ELSE LET g == groupStart(Min(matches))
          IN [matched |-> TRUE,
              group |-> Substring(content, g, SkipUntil(content, g, Whitespace \cup {";"}))]

\* findViewModelBaseNamespace: null when the file cannot be read or has no match.
findViewModelBaseNamespace(file) ==
  IF file.exists THEN NamespaceMatch(file.content) ELSE [matched |-> FALSE, group |-> ""]

\* findViewModelNamespace
findViewModelNamespace(file) ==
  IF file.exists THEN NamespaceMatch(file.content) ELSE [matched |-> FALSE, group |-> ""]

\* The `using` step that takes a namespace that was not found for an empty
\* one instead of skipping.
WithUsingOfNull(fileContent, viewModelBaseNamespace, viewModelNamespace) ==
  IF viewModelBaseNamespace.group # viewModelNamespace.group
  THEN LET usingStatement == "using " \o viewModelBaseNamespace.group \o ";\r\n\r\n"
           namespaceIndex == IndexOf(fileContent, "namespace ", 0)
       IN IF namespaceIndex # -1
          THEN Substring(fileContent, 0, namespaceIndex) \o usingStatement
                 \o SubstringFrom(fileContent, namespaceIndex)
          ELSE fileContent
  ELSE fileContent

\* The file content after the `using` step of inheritFromViewModelBaseIfExists.
WithUsing(fileContent, viewModelBaseNamespace, viewModelNamespace) ==
  IF /\ viewModelBaseNamespace.matched
     /\ viewModelNamespace.matched
     /\ viewModelBaseNamespace.group # viewModelNamespace.group
  THEN LET usingStatement == "using " \o viewModelBaseNamespace.group \o ";\r\n\r\n"
           namespaceIndex == IndexOf(fileContent, "namespace ", 0)
       IN IF namespaceIndex # -1
          THEN Substring(fileContent, 0, namespaceIndex) \o usingStatement
                 \o SubstringFrom(fileContent, namespaceIndex)
          ELSE fileContent
  ELSE fileContent

\* The inheritance step with the '{' searched from the start of the text.
WithInheritanceBraceFromStart(fileContent, viewModelFileName) ==
  LET startIndex == IndexOf(fileContent, " class " \o viewModelFileName, 0)
      endIndex == IndexOf(fileContent, "{", 0)
  IN Substring(fileContent, 0, startIndex)
       \o " class " \o viewModelFileName \o " : ViewModelBase\r\n"
       \o SubstringFrom(fileContent, endIndex)

\* The inheritance step that puts the clause after the class token and leaves
\* the text up to the '{' in place.
WithInheritanceAfterToken(fileContent, viewModelFileName) ==
  LET startIndex == IndexOf(fileContent, " class " \o viewModelFileName, 0)
      endIndex == startIndex + Len(" class " \o viewModelFileName)
  IN Substring(fileContent, 0, startIndex)
       \o " class " \o viewModelFileName \o " : ViewModelBase\r\n"
       \o SubstringFrom(fileContent, endIndex)

\* The inheritance step: neither indexOf result is tested for -1.
WithInheritance(fileContent, viewModelFileName) ==
  LET startIndex == IndexOf(fileContent, " class " \o viewModelFileName, 0)
      endIndex == IndexOf(fileContent, "{", startIndex)
  IN Substring(fileContent, 0, startIndex)
       \o " class " \o viewModelFileName \o " : ViewModelBase\r\n"
       \o SubstringFrom(fileContent, endIndex)

\* The function going on whether or not ViewModelBase.cs exists.
ViewModelBaseAlwaysFound(viewModelBase) == TRUE

\* Whether fs.existsSync(viewModelBasePath) lets the function go on.
ViewModelBaseFound(viewModelBase) == viewModelBase.exists

\* inheritFromViewModelBaseIfExists on the two files: what it throws ("" when
\* it returns), whether it wrote the view-model file, fileContent after the
\* `using` step, and the content written.
inheritFromViewModelBaseIfExists(viewModel, viewModelFileName, viewModelBase) ==
  IF ~ViewModelBaseFound(viewModelBase)
  THEN [error |-> "", wrote |-> FALSE, withUsing |-> viewModel.content,
        content |-> viewModel.content]
  ELSE IF ~viewModel.exists
  THEN [error |-> "ENOENT", wrote |-> FALSE, withUsing |-> viewModel.content,
        content |-> viewModel.content]
  ELSE LET withUsing == WithUsing(viewModel.content,
                                  findViewModelBaseNamespace(viewModelBase),
                                  findViewModelNamespace(viewModel))
       IN [error |-> "", wrote |-> TRUE, withUsing |-> withUsing,
           content |-> WithInheritance(withUsing, viewModelFileName)]

-----------------------------------------------------------------------------
(* createViewModel: the directory and the name of the view model.          *)

UpperCase == "ABCDEFGHIJKLMNOPQRSTUVWXYZ"

LowerCase == "abcdefghijklmnopqrstuvwxyz"

\* s.toLowerCase()
RECURSIVE ToLowerCase(_)
ToLowerCase(s) ==
  IF s = "" THEN ""
  ELSE LET c == SubSeq(s, 1, 1)
           i == IndexOf(UpperCase, c, 0)
       IN (IF i = -1 THEN c ELSE SubSeq(LowerCase, i + 1, i + 1))
            \o ToLowerCase(SubSeq(s, 2, Len(s)))

\* The absolute path of the workspace folder, the directory <<>> of the model.
WorkspaceRoot == IF platform = "win32" THEN "C:\\ws" ELSE "/ws"

\* The absolute path string of a directory of the model.
RECURSIVE PathString(_)
PathString(dir) ==
  IF Len(dir) = 0 THEN WorkspaceRoot
  ELSE PathString(SubSeq(dir, 1, Len(dir) - 1)) \o PathSep \o dir[Len(dir)]

\* The directory of the model an absolute path string below the workspace
\* folder names.
DirOf(pathString) ==
  SelectSeq(Split(SubstringFrom(pathString, Len(WorkspaceRoot)), PathSep),
            LAMBDA part : part # "")

\* path.join(a, b) of an absolute path and a relative one without "." or "..":
\* the two joined by path.sep, repeated and trailing separators dropped.
PathJoin(a, b) == PathString(DirOf(a \o PathSep \o b))

\* directoryPath and viewModelsPath of createViewModel
ViewModelPaths(viewPath) ==
  IF Includes(ToLowerCase(viewPath), "\\views")
  THEN LET viewsIndex == IndexOf(ToLowerCase(viewPath), "\\views", 0)
           basePath == Substring(viewPath, 0, viewsIndex)
           viewModelsPath == PathJoin(basePath, "ViewModels")
           viewsSubPath == SubstringFrom(viewPath, viewsIndex + Len("\\views"))
       IN [directoryPath |-> PathJoin(viewModelsPath, viewsSubPath),
           viewModelsPath |-> viewModelsPath]
  ELSE [directoryPath |-> viewPath, viewModelsPath |-> viewPath]

\* fileName of createViewModel
ViewModelFileName(viewName) ==
  IF EndsWith(ToLowerCase(viewName), "view")
  THEN viewName \o "Model"
  ELSE viewName \o "ViewModel"

\* The directories fs.mkdirSync(directoryPath, {recursive: true}) leaves.
WithDirectory(dir) == dirs \cup {SubSeq(dir, 1, k) : k \in 0..Len(dir)}

-----------------------------------------------------------------------------
(* The steps of executeTemplateCreation.                                   *)

NoFile == [exists |-> FALSE, content |-> ""]

File(content) == [exists |-> TRUE, content |-> content]

NoNamespaces ==
  [error |-> "", solutionDir |-> null, xamlNameSpace |-> "", csharpNameSpace |-> ""]

NoViewModel == [directoryPath |-> "", viewModelsPath |-> "", fileName |-> ""]

\* errorMessage of handleCreationError
ErrorMessage(message) ==
  IF Includes(message, "Solution or project file not found")
  THEN "No solution or project file found in workspace. Please open an Avalonia project."
  ELSE IF Includes(message, "Namespace not found")
  THEN "Could not determine namespace. Please make sure you're working in a valid project structure."
  ELSE message

\* An error reaches the catch of executeTemplateCreation: handleCreationError
\* shows its message and throws, and the request is over.
Throw(message) ==
  /\ pc' = "failed"
  /\ thrown' = message
  /\ shown' = ErrorMessage(message)

\* The texts the external generator may leave in <fileName>.axaml: the
\* conventional one, and one without the namespace-bearing token.
GeneratedMarkup(templateType, fileName) ==
  IF templateType \in {"Window", "UserControl"}
  THEN {"<W a=\"b\" x:Class=\"Old." \o fileName \o "\" c=\"d\">", "<W a=\"b\">"}
  ELSE IF templateType = "TemplatedControl"
  THEN {"<R a=\"b\" xmlns:controls=\"using:Old\">", "<R a=\"b\">"}
  ELSE {"<S a=\"b\">"}

\* The texts it may leave in <fileName>.axaml.cs: a file-scoped namespace, and
\* a block-scoped one (no ';' after the declaration).
GeneratedCodeBehind(fileName) ==
  {"using A;\r\nnamespace Old;\r\nclass " \o fileName \o " {}",
   "using A;\r\nnamespace Old\r\n{class " \o fileName \o " {}}"}

\* The texts `dotnet new class` may leave in <fileName>.cs.
GeneratedClass(fileName) ==
  {"namespace Old;\r\n\r\npublic class " \o fileName \o "\r\n{\r\n}",
   "namespace Old;\r\n\r\nrecord " \o fileName \o "();"}

\* The step after the namespace update (or the opening of a non-code file).
AfterUpdate == IF req.alsoCreateViewModel THEN "vmDirectory" ELSE "done"

Command(forced) ==
  "dotnet new " \o getTemplateConfiguration(req.templateType).dotnetTemplate
    \o " -n " \o req.fileName \o (IF forced THEN " --force" ELSE "")

\* The generator succeeds and a requested view model is created before the
\* primary files are rewritten.
TemplateCreatedViewModelFirst(at, forced) ==
  /\ pc = at
  /\ \E markup \in GeneratedMarkup(req.templateType, req.fileName),
        code \in GeneratedCodeBehind(req.fileName) :
       files' = [files EXCEPT !.frontend = File(markup), !.backend = File(code)]
  /\ execLog' = Append(execLog, Command(forced))
  /\ pc' = IF req.alsoCreateViewModel THEN "vmDirectory"
           ELSE IF getTemplateConfiguration(req.templateType).requiresNamespaceUpdate
           THEN "findNameSpaces" ELSE "openTextDocument"
  /\ last' = [op |-> "execSync"]
  /\ UNCHANGED <<platform, dirs, listing, unreadable, req, namespaces, vm, thrown, shown>>

\* childProcess.execSync(command) succeeds: the generator has written the files.
TemplateCreated(at, forced) ==
  /\ pc = at
  /\ \E markup \in GeneratedMarkup(req.templateType, req.fileName),
        code \in GeneratedCodeBehind(req.fileName) :
       files' = [files EXCEPT !.frontend = File(markup), !.backend = File(code)]
  /\ execLog' = Append(execLog, Command(forced))
  /\ pc' = IF getTemplateConfiguration(req.templateType).requiresNamespaceUpdate
           THEN "findNameSpaces" ELSE "openTextDocument"
  /\ last' = [op |-> "execSync"]
  /\ UNCHANGED <<platform, dirs, listing, unreadable, req, namespaces, vm, thrown, shown>>

ExecTemplate == TemplateCreated("exec", FALSE)

\* execSync throws an error whose message includes "is not restored".
ExecTemplateNotRestored ==
  /\ pc = "exec"
  /\ execLog' = Append(execLog, Command(FALSE))
  /\ pc' = "execForce"
  /\ last' = [op |-> "execSync"]
  /\ UNCHANGED <<platform, dirs, listing, unreadable, files, req, namespaces, vm, thrown, shown>>

\* execSync throws any other error: it is thrown on.
ExecTemplateFails ==
  /\ pc = "exec"
  /\ execLog' = Append(execLog, Command(FALSE))
  /\ Throw("Command failed")
  /\ last' = [op |-> "execSync"]
  /\ UNCHANGED <<platform, dirs, listing, unreadable, files, req, namespaces, vm>>

ExecTemplateForce == TemplateCreated("execForce", TRUE)

\* The forced command throws and is tried once more.
ExecTemplateForceRetried ==
  /\ pc = "execForce"
  /\ execLog' = Append(execLog, Command(TRUE))
  /\ pc' = "execForce"
  /\ last' = [op |-> "execSync"]
  /\ UNCHANGED <<platform, dirs, listing, unreadable, files, req, namespaces, vm, thrown, shown>>

\* The forced command throws, inside the catch block: nothing catches it
\* before the outer catch.
ExecTemplateForceFails ==
  /\ pc = "execForce"
  /\ execLog' = Append(execLog, Command(TRUE))
  /\ Throw("Command failed")
  /\ last' = [op |-> "execSync"]
  /\ UNCHANGED <<platform, dirs, listing, unreadable, files, req, namespaces, vm>>

\* Non-code templates: the created file is opened, nothing is rewritten.
OpenNonCodeTemplate ==
  /\ pc = "openTextDocument"
  /\ pc' = AfterUpdate
  /\ last' = [op |-> "openTextDocument"]
  /\ UNCHANGED <<platform, dirs, listing, unreadable, files, req, namespaces, vm,
                 thrown, shown, execLog>>

\* findNameSpaces, called by changeNamespaces (at "findNameSpaces") and by
\* createViewModel (at "vmFindNameSpaces").
FindNameSpacesAt(at, createPath, fileName, next) ==
  /\ pc = at
  /\ LET result == findNameSpaces(createPath, req.projectPath, fileName)
     IN /\ namespaces' = result
        /\ last' = [op |-> "findNameSpaces", createPath |-> createPath,
                    projectPath |-> req.projectPath, fileName |-> fileName,
                    result |-> result]
        /\ IF result.error # ""
           THEN Throw(result.error)
           ELSE pc' = next /\ UNCHANGED <<thrown, shown>>
  /\ UNCHANGED <<platform, dirs, listing, unreadable, files, req, vm, execLog>>

FindNameSpaces ==
  FindNameSpacesAt("findNameSpaces", req.createPath, req.fileName, "changeFrontend")

\* changeFileContent on one file: read, substitute, write.
ChangeFileContentAt(at, file, args, next) ==
  /\ pc = at
  /\ IF ~files[file].exists
     THEN /\ Throw("ENOENT")
          /\ last' = [op |-> "changeFileContent", file |-> file, args |-> args,
                      threw |-> TRUE, before |-> "", after |-> ""]
          /\ UNCHANGED files
     ELSE /\ files' = [files EXCEPT ![file] = File(ModifiedData(files[file].content, args))]
          /\ last' = [op |-> "changeFileContent", file |-> file, args |-> args,
                      threw |-> FALSE, before |-> files[file].content,
                      after |-> ModifiedData(files[file].content, args)]
          /\ pc' = next
          /\ UNCHANGED <<thrown, shown>>
  /\ UNCHANGED <<platform, dirs, listing, unreadable, req, namespaces, vm, execLog>>

ChangeArgs(startContent, endContent, isCSharpFile) ==
  [startContent |-> startContent, endContent |-> endContent,
   templateType |-> req.templateType,
   xamlNameSpace |-> namespaces.xamlNameSpace,
   csharpNameSpace |-> namespaces.csharpNameSpace,
   isCSharpFile |-> isCSharpFile]

ChangeFrontend ==
  ChangeFileContentAt("changeFrontend", "frontend",
                      ChangeArgs(frontendModifiedStartContent(req.templateType),
                                 frontendModifiedEndContent(req.templateType), FALSE),
                      "changeBackend")

ChangeBackend ==
  ChangeFileContentAt("changeBackend", "backend",
                      ChangeArgs(backendModifiedStartContent,
                                 backendModifiedEndContent, TRUE),
                      AfterUpdate)

-----------------------------------------------------------------------------
(* The steps of createViewModel.                                           *)

\* The directory of the view model is worked out and, in the Views branch,
\* created when it does not exist.
ViewModelDirectory ==
  /\ pc = "vmDirectory"
  /\ LET paths == ViewModelPaths(PathString(req.createPath))
         made == IF paths.directoryPath # PathString(req.createPath)
                 THEN WithDirectory(DirOf(paths.directoryPath))
                 ELSE dirs
     IN /\ vm' = [directoryPath |-> paths.directoryPath,
                  viewModelsPath |-> paths.viewModelsPath,
                  fileName |-> ViewModelFileName(req.fileName)]
        /\ dirs' = made
        /\ listing' = [d \in made |-> IF d \in dirs THEN listing[d] ELSE <<>>]
  /\ pc' = "vmExec"
  /\ last' = [op |-> "viewModelDirectory"]
  /\ UNCHANGED <<platform, unreadable, files, req, namespaces, thrown, shown, execLog>>

ViewModelCommand(forced) ==
  "dotnet new class -n " \o vm.fileName \o (IF forced THEN " --force" ELSE "")

ViewModelCreated(at, forced) ==
  /\ pc = at
  /\ \E class \in GeneratedClass(vm.fileName) :
       files' = [files EXCEPT !.viewModel = File(class)]
  /\ execLog' = Append(execLog, ViewModelCommand(forced))
  /\ pc' = "vmFindNameSpaces"
  /\ last' = [op |-> "execSync"]
  /\ UNCHANGED <<platform, dirs, listing, unreadable, req, namespaces, vm, thrown, shown>>

ExecViewModel == ViewModelCreated("vmExec", FALSE)

ExecViewModelNotRestored ==
  /\ pc = "vmExec"
  /\ execLog' = Append(execLog, ViewModelCommand(FALSE))
  /\ pc' = "vmExecForce"
  /\ last' = [op |-> "execSync"]
  /\ UNCHANGED <<platform, dirs, listing, unreadable, files, req, namespaces, vm, thrown, shown>>

ExecViewModelFails ==
  /\ pc = "vmExec"
  /\ execLog' = Append(execLog, ViewModelCommand(FALSE))
  /\ Throw("Command failed")
  /\ last' = [op |-> "execSync"]
  /\ UNCHANGED <<platform, dirs, listing, unreadable, files, req, namespaces, vm>>

ExecViewModelForce == ViewModelCreated("vmExecForce", TRUE)

ExecViewModelForceFails ==
  /\ pc = "vmExecForce"
  /\ execLog' = Append(execLog, ViewModelCommand(TRUE))
  /\ Throw("Command failed")
  /\ last' = [op |-> "execSync"]
  /\ UNCHANGED <<platform, dirs, listing, unreadable, files, req, namespaces, vm>>

ViewModelFindNameSpaces ==
  FindNameSpacesAt("vmFindNameSpaces", DirOf(vm.directoryPath), vm.fileName, "vmChange")

ChangeViewModel ==
  ChangeFileContentAt("vmChange", "viewModel", ChangeArgs("namespace ", ";", TRUE),
                      "vmInherit")

\* The injection that, when the class token is missing, throws and puts the
\* generator's text back into the code-behind file.
InheritRevertingPrimaries ==
  /\ pc = "vmInherit"
  /\ LET result == inheritFromViewModelBaseIfExists(files.viewModel, vm.fileName,
                                                    files.viewModelBase)
         missing == IndexOf(files.viewModel.content, " class " \o vm.fileName, 0) = -1
     IN /\ last' = [op |-> "inherit", viewModel |-> files.viewModel,
                    viewModelBase |-> files.viewModelBase,
                    viewModelFileName |-> vm.fileName, result |-> result]
        /\ files' = IF missing
                    THEN [files EXCEPT !.backend =
                            File(CHOOSE code \in GeneratedCodeBehind(req.fileName) : TRUE)]
                    ELSE IF result.wrote
                    THEN [files EXCEPT !.viewModel = File(result.content)]
                    ELSE files
        /\ IF missing \/ result.error # ""
           THEN Throw("Class declaration not found.")
           ELSE pc' = "done" /\ UNCHANGED <<thrown, shown>>
  /\ UNCHANGED <<platform, dirs, listing, unreadable, req, namespaces, vm, execLog>>

\* inheritFromViewModelBaseIfExists(filePath, fileName, viewModelsPath)
Inherit ==
  /\ pc = "vmInherit"
  /\ LET result == inheritFromViewModelBaseIfExists(files.viewModel, vm.fileName,
                                                    files.viewModelBase)
     IN /\ last' = [op |-> "inherit", viewModel |-> files.viewModel,
                    viewModelBase |-> files.viewModelBase,
                    viewModelFileName |-> vm.fileName, result |-> result]
        /\ files' = IF result.wrote
                    THEN [files EXCEPT !.viewModel = File(result.content)]
                    ELSE files
        /\ IF result.error # ""
           THEN Throw(result.error)
           ELSE pc' = "done" /\ UNCHANGED <<thrown, shown>>
  /\ UNCHANGED <<platform, dirs, listing, unreadable, req, namespaces, vm, execLog>>

-----------------------------------------------------------------------------
(* The scaffold request from its start, in a small workspace.              *)

Platforms == {"win32", "posix"}

\* The workspaces of the whole-request specification.
MainTrees ==
  {{<<>>, <<"Views">>},
   {<<>>, <<"Lib">>, <<"Lib", "Views">>},
   {<<>>, <<"Lib">>, <<"Views">>}}

MainListings == {<<>>, <<"App.csproj">>}

FileNames == {"Foo"}

BaseFiles == {NoFile, File("namespace App.ViewModels;\r\npublic class ViewModelBase {}")}

NoFiles ==
  [frontend |-> NoFile, backend |-> NoFile, viewModel |-> NoFile, viewModelBase |-> NoFile]

\* createTemplate: the view model is offered for the types that support it.
Requests(createPaths) ==
  {r \in [templateType : TemplateTypes, fileName : FileNames, createPath : createPaths,
          projectPath : {<<>>}, alsoCreateViewModel : BOOLEAN] :
     r.alsoCreateViewModel => getTemplateConfiguration(r.templateType).supportsViewModel}

Init ==
  /\ platform \in Platforms
  /\ dirs \in MainTrees
  /\ listing \in [dirs -> MainListings]
  /\ unreadable = {}
  /\ \E base \in BaseFiles : files = [NoFiles EXCEPT !.viewModelBase = base]
  /\ req \in Requests(dirs)
  /\ pc = "exec"
  /\ namespaces = NoNamespaces
  /\ vm = NoViewModel
  /\ thrown = ""
  /\ shown = ""
  /\ execLog = <<>>
  /\ last = [op |-> "none"]

Next ==
  \/ ExecTemplate
  \/ ExecTemplateNotRestored
  \/ ExecTemplateFails
  \/ ExecTemplateForce
  \/ ExecTemplateForceFails
  \/ OpenNonCodeTemplate
  \/ FindNameSpaces
  \/ ChangeFrontend
  \/ ChangeBackend
  \/ ViewModelDirectory
  \/ ExecViewModel
  \/ ExecViewModelNotRestored
  \/ ExecViewModelFails
  \/ ExecViewModelForce
  \/ ExecViewModelForceFails
  \/ ViewModelFindNameSpaces
  \/ ChangeViewModel
  \/ Inherit

Spec == Init /\ [][Next]_vars

-----------------------------------------------------------------------------
(* The region substitution on many texts: the request stands before the    *)
(* rewriting of its two primary files, whatever the generator left there.  *)

\* The number of pieces a text of the substitution specification is made of.
MaxRegionChunks == 3

\* The number of pieces a view-model text of the injection specification is
\* made of.
MaxInjectChunks == 4

\* The texts made of 1..n of the given pieces.
RECURSIVE Concats(_, _)
Concats(chunks, n) ==
  IF n = 0 THEN {""}
  ELSE LET shorter == Concats(chunks, n - 1)
       IN shorter \cup {t \o c : t \in shorter, c \in chunks}

MarkupChunks ==
  {"<W a=", "x:Class=\"", "Old.Ns", "\"", "xmlns:controls=\"using:", "\">"}

CodeChunks == {"using A;", "namespace ", "Old", ";", "{}"}

RegionNamespaces ==
  {[error |-> "", solutionDir |-> <<>>,
    xamlNameSpace |-> "App.Views.Foo", csharpNameSpace |-> "App.Views"]}

InitRegion ==
  /\ platform = "win32"
  /\ dirs = {<<>>}
  /\ listing = [d \in dirs |-> <<"App.csproj">>]
  /\ unreadable = {}
  /\ \E markup \in Concats(MarkupChunks, MaxRegionChunks),
        code \in Concats(CodeChunks, MaxRegionChunks) :
       /\ markup = "x:Class=\"Old.Ns\"" \/ code = "namespace Old;"
       /\ files = [NoFiles EXCEPT !.frontend = File(markup), !.backend = File(code)]
  /\ req \in {r \in Requests(dirs) :
                /\ r.templateType \in {"Window", "TemplatedControl"}
                /\ ~r.alsoCreateViewModel}
  /\ pc = "changeFrontend"
  /\ namespaces \in RegionNamespaces
  /\ vm = NoViewModel
  /\ thrown = ""
  /\ shown = ""
  /\ execLog = <<>>
  /\ last = [op |-> "findNameSpaces"]

NextRegion == ChangeFrontend \/ ChangeBackend

SpecRegion == InitRegion /\ [][NextRegion]_vars

-----------------------------------------------------------------------------
(* The root search on every small directory tree.                          *)

\* The number of directories of a tree of the root-search specification.
MaxDirs == 4

\* The number of directories of a tree of the namespace specification.
MaxNsDirs == 3

\* The directory trees of at most n directories, the workspace folder included.
RECURSIVE TreesUpTo(_)
TreesUpTo(n) ==
  IF n <= 1 THEN {{<<>>}}
  ELSE LET smaller == TreesUpTo(n - 1)
       IN smaller \cup
          UNION {{t \cup {Append(p, name)} : p \in t, name \in Names} : t \in smaller}

LocateListings == {<<"a.cs", "App.sln.bak">>, <<"b.cs", "App.csproj">>}

InitLocate ==
  /\ platform = "win32"
  /\ dirs \in TreesUpTo(MaxDirs)
  /\ listing \in [dirs -> LocateListings]
  /\ unreadable \in {{}} \cup {{d} : d \in dirs}
  /\ \E start \in dirs :
       req = [templateType |-> "Window", fileName |-> "Foo", createPath |-> start,
              projectPath |-> start, alsoCreateViewModel |-> FALSE]
  /\ files = NoFiles
  /\ pc = "findNameSpaces"
  /\ namespaces = NoNamespaces
  /\ vm = NoViewModel
  /\ thrown = ""
  /\ shown = ""
  /\ execLog = <<>>
  /\ last = [op |-> "execSync"]

NextLocate == FindNameSpaces

SpecLocate == InitLocate /\ [][NextLocate]_vars

-----------------------------------------------------------------------------
(* The namespace construction for every root, target and name.             *)

NsListings ==
  {<<"App.sln">>, <<"App.csproj">>, <<"App.sln", "App.csproj">>,
   <<"P.csproj", "Q.csproj">>, <<".csproj">>, <<"a.csproj.csproj">>,
   <<"My.App.csproj", "b.cs">>}

NsFileNames == {"Foo", "A.B"}

InitNs ==
  /\ platform \in Platforms
  /\ dirs \in TreesUpTo(MaxNsDirs)
  /\ \E root \in dirs, l \in NsListings :
       listing = [d \in dirs |-> IF d = root THEN l ELSE <<>>]
  /\ unreadable = {}
  /\ \E target \in dirs, name \in NsFileNames :
       req = [templateType |-> "Window", fileName |-> name, createPath |-> target,
              projectPath |-> <<>>, alsoCreateViewModel |-> FALSE]
  /\ files = NoFiles
  /\ pc = "findNameSpaces"
  /\ namespaces = NoNamespaces
  /\ vm = NoViewModel
  /\ thrown = ""
  /\ shown = ""
  /\ execLog = <<>>
  /\ last = [op |-> "execSync"]

NextNs == FindNameSpaces

SpecNs == InitNs /\ [][NextNs]_vars

-----------------------------------------------------------------------------
(* The inheritance injection on many view-model texts: the request stands  *)
(* before inheritFromViewModelBaseIfExists, whatever text the generator    *)
(* and the namespace rewriting left in the view-model file.                *)

InjectChunks ==
  {"namespace A;\r\n", "namespace A.B;\r\n", "namespace\tA.B;\r\n", "// namespace ;\r\n",
   "using S;\r\n", "public class FooViewModel\r\n", "{\r\n}\r\n"}

\* ViewModelBase.cs: absent, declaring a namespace, declaring none.
InjectBaseFiles ==
  {NoFile,
   File("namespace A;\r\npublic class ViewModelBase {}"),
   File("public class ViewModelBase {}")}

InitInject ==
  /\ platform = "posix"
  /\ dirs = {<<>>, <<"ViewModels">>}
  /\ listing = [d \in dirs |-> IF d = <<>> THEN <<"App.csproj">> ELSE <<>>]
  /\ unreadable = {}
  /\ \E text \in Concats(InjectChunks, MaxInjectChunks), base \in InjectBaseFiles :
       files = [frontend |-> File("<W x:Class=\"App.ViewModels.Foo\">"),
                backend |-> File("namespace App.ViewModels;\r\nclass Foo {}"),
                viewModel |-> File(text),
                viewModelBase |-> base]
  /\ req = [templateType |-> "Window", fileName |-> "Foo", createPath |-> <<"ViewModels">>,
            projectPath |-> <<>>, alsoCreateViewModel |-> TRUE]
  /\ pc = "vmInherit"
  /\ namespaces = [error |-> "", solutionDir |-> <<>>,
                   xamlNameSpace |-> "App.ViewModels.FooViewModel",
                   csharpNameSpace |-> "App.ViewModels"]
  /\ vm = [directoryPath |-> PathString(<<"ViewModels">>),
           viewModelsPath |-> PathString(<<"ViewModels">>),
           fileName |-> ViewModelFileName("Foo")]
  /\ thrown = ""
  /\ shown = ""
  /\ execLog = <<"dotnet new avalonia.window -n Foo", "dotnet new class -n FooViewModel">>
  /\ last = [op |-> "changeFileContent"]

NextInject == Inherit

SpecInject == InitInject /\ [][NextInject]_vars

-----------------------------------------------------------------------------
(* The claims.                                                             *)

\* t occurs in s at 0-based offset k.
Occurs(t, s, k) ==
  /\ k >= 0
  /\ k + Len(t) <= Len(s)
  /\ SubSeq(s, k + 1, k + Len(t)) = t

Present(t, s) == \E k \in 0..Len(s) : Occurs(t, s, k)

\* k is the first offset at or after `from` at which t occurs in s.
FirstFrom(t, s, from, k) ==
  /\ k >= from
  /\ Occurs(t, s, k)
  /\ \A m \in from..(k - 1) : ~Occurs(t, s, m)

\* C1: whenever the start marker or the end marker is absent from the file
\* text, changeFileContent fails with an error and the file keeps its content.
C1_MissingMarkerFails ==
  (/\ last.op = "changeFileContent"
   /\ \/ ~Present(last.args.startContent, last.before)
      \/ ~Present(last.args.endContent, last.before))
  => /\ last.threw
     /\ files[last.file].content = last.before

\* C2: when both markers are found (the start marker in the text, the end
\* marker at or after the end of the first start marker), the text written is
\* the input up to and including the first start marker, the replacement, and
\* the input from that first end marker on.
C2_OnlyRegionReplaced ==
  (last.op = "changeFileContent" /\ ~last.threw)
  => \A i, j \in 0..Len(last.before) :
       (/\ FirstFrom(last.args.startContent, last.before, 0, i)
        /\ FirstFrom(last.args.endContent, last.before,
                     i + Len(last.args.startContent), j))
       => /\ last.after = SubSeq(last.before, 1, i + Len(last.args.startContent))
                            \o NamespaceToUse(last.args)
                            \o SubSeq(last.before, j + 1, Len(last.before))
          /\ files[last.file].content = last.after

\* Both markers were found, the end marker also occurs before the start
\* marker, and the text changed.
C2_Witness ==
  /\ last.op = "changeFileContent"
  /\ ~last.threw
  /\ last.after # last.before
  /\ \E i, j \in 0..Len(last.before) :
       /\ FirstFrom(last.args.startContent, last.before, 0, i)
       /\ FirstFrom(last.args.endContent, last.before,
                    i + Len(last.args.startContent), j)
       /\ \E m \in 0..(i - 1) : Occurs(last.args.endContent, last.before, m)

\* The dotted name of an entity below the given directory names.
RECURSIVE DotJoin(_, _)
DotJoin(segments, entityName) ==
  IF Len(segments) = 0 THEN entityName
  ELSE segments[1] \o "." \o DotJoin(Tail(segments), entityName)

\* C3: for a target directory under the located root, the namespace built is
\* the directory names from the root down to the target joined with '.', then
\* the entity name, prefixed with the project name and '.' exactly when the
\* root is not a solution root and its project name is not empty.
C3_NamespaceIsReference ==
  (/\ last.op = "findNameSpaces"
   /\ last.result.error = ""
   /\ IsPrefix(last.result.solutionDir, last.createPath))
  => LET root == last.result.solutionDir
         a == analyzeSolutionDirectory(root)
         segments == SubSeq(last.createPath, Len(root) + 1, Len(last.createPath))
         prefix == IF ~a.isSolutionDir /\ a.projectName # ""
                   THEN a.projectName \o "." ELSE ""
     IN last.result.xamlNameSpace = prefix \o DotJoin(segments, last.fileName)

\* A target two directories below a project root with a project name.
C3_Witness ==
  /\ last.op = "findNameSpaces"
  /\ last.result.error = ""
  /\ IsPrefix(last.result.solutionDir, last.createPath)
  /\ Len(last.createPath) = Len(last.result.solutionDir) + 2
  /\ analyzeSolutionDirectory(last.result.solutionDir).projectName # ""

\* C4: the code namespace is the full namespace cut at its last '.': with a
\* dot, the full one is the code one, a '.', and a rest without a dot;
\* without a dot the two are equal.
C4_CodeNamespaceCutAtLastDot ==
  (last.op = "findNameSpaces" /\ last.result.error = "")
  => LET full == last.result.xamlNameSpace
         code == last.result.csharpNameSpace
     IN IF Present(".", full)
        THEN /\ Len(code) < Len(full)
             /\ SubSeq(full, 1, Len(code) + 1) = code \o "."
             /\ ~Present(".", SubSeq(full, Len(code) + 2, Len(full)))
        ELSE code = full

\* A full namespace with two dots or more.
C4_Witness ==
  /\ last.op = "findNameSpaces"
  /\ last.result.error = ""
  /\ Present(".", last.result.csharpNameSpace)

\* A directory lists a file with a solution or project suffix.
HasMarker(dir) ==
  \E i \in DOMAIN listing[dir] :
    LET name == listing[dir][i]
        n == Len(name)
    IN \/ n >= 4 /\ SubSeq(name, n - 3, n) = ".sln"
       \/ n >= 7 /\ SubSeq(name, n - 6, n) = ".csproj"

\* C5: when exactly one directory D of the tree holds a marker file and all
\* directories are readable, the search from D or from an ancestor of D
\* returns D.
C5_SingleMarkerFound ==
  (last.op = "findNameSpaces" /\ unreadable = {})
  => \A D \in dirs :
       (/\ {d \in dirs : HasMarker(d)} = {D}
        /\ IsPrefix(last.projectPath, D))
       => last.result.solutionDir = D

\* The only marker is two levels below the start directory, in the subtree
\* of a directory that is not the first one listed.
C5_Witness ==
  /\ last.op = "findNameSpaces"
  /\ unreadable = {}
  /\ \E D \in dirs :
       /\ {d \in dirs : HasMarker(d)} = {D}
       /\ IsPrefix(last.projectPath, D)
       /\ Len(D) = Len(last.projectPath) + 2
       /\ Len(SubDirs(last.projectPath)) >= 2
       /\ ~IsPrefix(SubDirs(last.projectPath)[1], D)
       /\ last.result.solutionDir = D

\* The directories of the given subtrees in depth-first pre-order.
RECURSIVE PreOrder(_)
PreOrder(roots) ==
  IF Len(roots) = 0 THEN <<>>
  ELSE <<roots[1]>> \o PreOrder(SubDirs(roots[1])) \o PreOrder(Tail(roots))

\* C6: the search returns the first directory with a marker in the order:
\* the start directory, then its subdirectories in depth-first pre-order by
\* directory-listing order (all directories readable); none when there is no
\* such directory.
C6_FirstInPreOrder ==
  (last.op = "findNameSpaces" /\ unreadable = {})
  => LET order == PreOrder(<<last.projectPath>>)
         marked == {i \in DOMAIN order : HasMarker(order[i])}
     IN last.result.solutionDir = IF marked = {} THEN null ELSE order[Min(marked)]

\* Several markers: the one returned is two levels below the start, and a
\* directory listed later, one level below the start, holds a marker too.
C6_Witness ==
  /\ last.op = "findNameSpaces"
  /\ unreadable = {}
  /\ last.result.solutionDir # null
  /\ Len(last.result.solutionDir) = Len(last.projectPath) + 2
  /\ \E d \in dirs :
       /\ HasMarker(d)
       /\ IsPrefix(last.projectPath, d)
       /\ Len(d) = Len(last.projectPath) + 1

\* No directory of the subtree of the search-start path holds a marker file.
NoMarkerBelow(startDir) ==
  \A d \in dirs : IsPrefix(startDir, d) => ~HasMarker(d)

\* C7: when no directory in the subtree of the search-start path holds a
\* marker file, the root location throws, the error is shown and reaches the
\* caller, and the request is over: no file is rewritten, no view model is
\* generated and no inheritance is injected.
C7_RootNotFoundAborts ==
  NoMarkerBelow(req.projectPath) =>
    /\ last.op = "findNameSpaces" =>
         /\ pc = "failed"
         /\ last.result.error = "Solution or project file not found in workspace."
         /\ thrown = last.result.error
         /\ shown = "No solution or project file found in workspace. Please open an Avalonia project."
    /\ pc \notin {"changeFrontend", "changeBackend", "vmDirectory", "vmExec", "vmExecForce",
                  "vmFindNameSpaces", "vmChange", "vmInherit"}
    /\ last.op \notin {"changeFileContent", "viewModelDirectory", "inherit"}
    /\ pc = "done" => ~getTemplateConfiguration(req.templateType).requiresNamespaceUpdate
    /\ files.frontend.exists =>
         files.frontend.content \in GeneratedMarkup(req.templateType, req.fileName)
    /\ files.backend.exists => files.backend.content \in GeneratedCodeBehind(req.fileName)
    /\ files.viewModel = NoFile
    /\ \A i \in 1..Len(execLog) : execLog[i] \in {Command(FALSE), Command(TRUE)}

C7_Witness ==
  /\ NoMarkerBelow(req.projectPath)
  /\ last.op = "findNameSpaces"
  /\ pc = "failed"
  /\ req.alsoCreateViewModel
  /\ files.frontend.exists
  /\ Cardinality(dirs) > 1

\* C8: when ViewModelBase.cs does not exist, inheritFromViewModelBaseIfExists
\* returns without an error and the view-model file keeps its content.
C8_AbsentBaseLeavesFile ==
  (last.op = "inherit" /\ ~last.viewModelBase.exists) =>
    /\ last.result.error = ""
    /\ pc = "done"
    /\ thrown = ""
    /\ shown = ""
    /\ files.viewModel = last.viewModel

C8_Witness ==
  /\ last.op = "inherit"
  /\ ~last.viewModelBase.exists
  /\ pc = "done"
  /\ \E k \in 0..Len(last.viewModel.content) :
       /\ Occurs(" class " \o last.viewModelFileName, last.viewModel.content, k)
       /\ \E b \in k..Len(last.viewModel.content) : Occurs("{", last.viewModel.content, b)

\* A namespace declaration stands at offset k of s: the keyword, one or more
\* whitespace characters, and a character that starts a name.
DeclarationAt(s, k) ==
  /\ Occurs("namespace", s, k)
  /\ \E g \in (k + 10)..(Len(s) - 1) :
       /\ \A i \in (k + 9)..(g - 1) : CharAt(s, i) \in Whitespace
       /\ CharAt(s, g) \notin Whitespace \cup {";"}

\* The text with an import of namespace ns put immediately before its first
\* namespace declaration.
WithImportBeforeDeclaration(s, ns) ==
  LET k == CHOOSE k \in 0..Len(s) :
             DeclarationAt(s, k) /\ \A m \in 0..(k - 1) : ~DeclarationAt(s, m)
  IN SubSeq(s, 1, k) \o "using " \o ns \o ";\r\n\r\n" \o SubSeq(s, k + 1, Len(s))

HasClassDeclaration(s, name) ==
  \E k \in 0..Len(s) :
    /\ Occurs(" class " \o name, s, k)
    /\ \E b \in (k + Len(" class " \o name))..Len(s) : Occurs("{", s, b)

\* The text s with the span from its first class token up to the first '{'
\* after it replaced by the token and the given clause.
WithClause(s, name, clause) ==
  LET token == " class " \o name
      k == CHOOSE k \in 0..Len(s) : FirstFrom(token, s, 0, k)
      b == CHOOSE b \in 0..Len(s) : FirstFrom("{", s, k + Len(token), b)
  IN SubSeq(s, 1, k) \o token \o clause \o SubSeq(s, b + 1, Len(s))

\* The injection went as far as the inheritance step on a text that holds
\* the class token followed later by '{'.
ClassDeclarationRewritten ==
  /\ last.op = "inherit"
  /\ last.viewModelBase.exists
  /\ last.viewModel.exists
  /\ HasClassDeclaration(last.viewModel.content, last.viewModelFileName)

\* C10: when the view-model text holds ` class <name>` followed later by '{',
\* the text written is the text of the inheritance step up to the class
\* token, then ` class <name> : ViewModelBase` and a CR LF line break, then
\* that text from the first '{' after the token on.
C10_ClassSpanReplaced ==
  ClassDeclarationRewritten =>
    /\ pc = "done"
    /\ HasClassDeclaration(last.result.withUsing, last.viewModelFileName)
    /\ files.viewModel.content =
         WithClause(last.result.withUsing, last.viewModelFileName, " : ViewModelBase\r\n")

\* C10 as stated: the '{' follows the inheritance clause immediately.
C10_ClassSpanReplacedNoLineBreak ==
  ClassDeclarationRewritten =>
    /\ pc = "done"
    /\ HasClassDeclaration(last.result.withUsing, last.viewModelFileName)
    /\ files.viewModel.content =
         WithClause(last.result.withUsing, last.viewModelFileName, " : ViewModelBase")

C10_Witness ==
  /\ ClassDeclarationRewritten
  /\ pc = "done"
  /\ last.result.withUsing # last.viewModel.content
  /\ \E k \in 0..Len(last.viewModel.content) :
       /\ FirstFrom(" class " \o last.viewModelFileName, last.viewModel.content, 0, k)
       /\ \E b \in 0..(k - 1) : Occurs("{", last.viewModel.content, b)

\* C11: when the view-model text does not hold the class token
\* ` class <name>`, inheritFromViewModelBaseIfExists fails with an error and
\* the view-model file keeps its content.
C11_MissingClassTokenFails ==
  (/\ last.op = "inherit"
   /\ last.viewModelBase.exists
   /\ last.viewModel.exists
   /\ ~Present(" class " \o last.viewModelFileName, last.viewModel.content))
  => /\ last.result.error # ""
     /\ pc = "failed"
     /\ files.viewModel = last.viewModel

\* The step just taken is changeFileContent on the given file.
Rewrites(file) == last'.op = "changeFileContent" /\ last'.file = file

\* The state is the one a completed changeFileContent on the given file left.
Rewritten(file) ==
  /\ last.op = "changeFileContent"
  /\ last.file = file
  /\ ~last.threw
  /\ files[file].content = last.after

\* C12: every step of a request follows the step the order names: the root
\* location and namespace build come before the rewriting of the markup file,
\* that before the rewriting of the code-behind file; the view model is
\* generated only after both primary files are written, its namespace is
\* built and substituted after that, and the inheritance injection runs only
\* on the written result of that substitution.
C12_StepOrder ==
  [][/\ (last'.op = "findNameSpaces" /\ pc = "findNameSpaces") =>
          /\ last.op = "execSync"
          /\ files.frontend.content \in GeneratedMarkup(req.templateType, req.fileName)
          /\ files.backend.content \in GeneratedCodeBehind(req.fileName)
     /\ Rewrites("frontend") =>
          /\ last.op = "findNameSpaces"
          /\ last.result.error = ""
          /\ namespaces = last.result
     /\ Rewrites("backend") => Rewritten("frontend")
     /\ last'.op = "viewModelDirectory" =>
          /\ getTemplateConfiguration(req.templateType).requiresNamespaceUpdate
          /\ Rewritten("backend")
          /\ ~files.viewModel.exists
     /\ (last'.op = "execSync" /\ files'.viewModel # files.viewModel) =>
          /\ last.op \in {"viewModelDirectory", "execSync"}
          /\ Len(execLog) >= 1
     /\ (last'.op = "findNameSpaces" /\ pc = "vmFindNameSpaces") =>
          /\ last.op = "execSync"
          /\ files.viewModel.exists
     /\ Rewrites("viewModel") =>
          /\ last.op = "findNameSpaces"
          /\ last.fileName = vm.fileName
          /\ last.result.error = ""
     /\ last'.op = "inherit" => Rewritten("viewModel")
     /\ (files'.frontend # files.frontend /\ last'.op # "execSync") => Rewrites("frontend")
     /\ (files'.backend # files.backend /\ last'.op # "execSync") => Rewrites("backend")
     /\ (files'.viewModel # files.viewModel /\ last'.op # "execSync") =>
          (Rewrites("viewModel") \/ last'.op = "inherit")
    ]_vars

C12_Witness ==
  /\ last.op = "inherit"
  /\ last.result.wrote
  /\ pc = "done"
  /\ files.frontend.content \notin GeneratedMarkup(req.templateType, req.fileName)
  /\ files.backend.content \notin GeneratedCodeBehind(req.fileName)

\* The request is in its view-model part.
CompanionStep ==
  pc \in {"vmDirectory", "vmExec", "vmExecForce", "vmFindNameSpaces", "vmChange", "vmInherit"}

\* C13: no step of the view-model part of a request, the injection on a text
\* without the class token and the failing steps included, changes the
\* markup file or the code-behind file: they keep what the substitution
\* steps wrote.
C13_CompanionKeepsPrimaries ==
  [][/\ CompanionStep =>
          /\ files'.frontend = files.frontend
          /\ files'.backend = files.backend
     /\ (/\ last'.op = "inherit"
         /\ ~Present(" class " \o last'.viewModelFileName, last'.viewModel.content)) =>
          /\ files'.frontend = files.frontend
          /\ files'.backend = files.backend
          /\ files.frontend.exists
          /\ files.backend.exists
     /\ (CompanionStep /\ pc' = "failed") =>
          /\ files'.frontend = files.frontend
          /\ files'.backend = files.backend
    ]_vars

C13_Witness ==
  /\ last.op = "inherit"
  /\ last.viewModelBase.exists
  /\ ~Present(" class " \o last.viewModelFileName, last.viewModel.content)
  /\ files.viewModel # last.viewModel
  /\ files.frontend.content \notin GeneratedMarkup(req.templateType, req.fileName)
  /\ files.backend.content \notin GeneratedCodeBehind(req.fileName)

\* The number of offsets of s at which t occurs.
Occurrences(t, s) == Cardinality({k \in 0..Len(s) : Occurs(t, s, k)})

\* inheritFromViewModelBaseIfExists applied once more to the file it wrote.
SecondInject ==
  inheritFromViewModelBaseIfExists(File(last.result.content), last.viewModelFileName,
                                   last.viewModelBase)

\* C14: on a view-model text that holds the class declaration, a second
\* injection leaves the class declaration as the first one wrote it: its
\* inheritance step changes nothing and the text holds as many inheritance
\* clauses as before; the second result differs from the first exactly when
\* the second run inserts its `using` statement once more.
C14_SecondInjectKeepsClause ==
  ClassDeclarationRewritten =>
    /\ SecondInject.wrote
    /\ SecondInject.content = SecondInject.withUsing
    /\ Occurrences(" : ViewModelBase", SecondInject.content)
         = Occurrences(" : ViewModelBase", last.result.content)
    /\ (SecondInject.content # last.result.content) <=>
         (/\ IndexOf(last.result.content, "namespace ", 0) # -1
          /\ findViewModelBaseNamespace(last.viewModelBase).matched
          /\ findViewModelNamespace(File(last.result.content)).matched
          /\ findViewModelBaseNamespace(last.viewModelBase).group
               # findViewModelNamespace(File(last.result.content)).group)

\* C14 as stated: the second injection duplicates the inheritance clause.
C14_SecondInjectDuplicatesClause ==
  ClassDeclarationRewritten =>
    /\ SecondInject.content # SecondInject.withUsing
    /\ Occurrences(" : ViewModelBase", SecondInject.content)
         > Occurrences(" : ViewModelBase", last.result.content)

C14_Witness ==
  /\ ClassDeclarationRewritten
  /\ pc = "done"
  /\ last.result.withUsing # last.viewModel.content
  /\ SecondInject.content # last.result.content
  /\ Occurrences(" : ViewModelBase", SecondInject.content) = 1

\* The text holds no namespace declaration.
NoDeclaration(s) == \A k \in 0..Len(s) : ~DeclarationAt(s, k)

\* The injection ran with ViewModelBase.cs present and one of the two files
\* without a namespace declaration.
InjectWithoutNamespace ==
  /\ last.op = "inherit"
  /\ last.viewModelBase.exists
  /\ last.viewModel.exists
  /\ \/ NoDeclaration(last.viewModelBase.content)
     \/ NoDeclaration(last.viewModel.content)

\* C15: when ViewModelBase.cs or the view-model file holds no namespace
\* declaration, the namespace scan of that file yields null and only the
\* `using` step is skipped: no text is inserted, and the class declaration
\* is rewritten with the inheritance clause as in any other run.
C15_NullNamespaceSkipsUsingOnly ==
  InjectWithoutNamespace =>
    /\ NoDeclaration(last.viewModelBase.content) =>
         ~findViewModelBaseNamespace(last.viewModelBase).matched
    /\ NoDeclaration(last.viewModel.content) =>
         ~findViewModelNamespace(last.viewModel).matched
    /\ last.result.withUsing = last.viewModel.content
    /\ last.result.wrote
    /\ pc = "done"
    /\ files.viewModel.content = last.result.content
    /\ HasClassDeclaration(last.viewModel.content, last.viewModelFileName) =>
         files.viewModel.content =
           WithClause(last.viewModel.content, last.viewModelFileName, " : ViewModelBase\r\n")

\* C15 as stated: the injection is skipped and the file is left unmodified.
C15_NullNamespaceSkipsInjection ==
  InjectWithoutNamespace =>
    /\ pc = "done"
    /\ files.viewModel = last.viewModel

C15_Witness ==
  /\ InjectWithoutNamespace
  /\ NoDeclaration(last.viewModelBase.content)
  /\ ~NoDeclaration(last.viewModel.content)
  /\ IndexOf(last.viewModel.content, "namespace ", 0) # -1
  /\ HasClassDeclaration(last.viewModel.content, last.viewModelFileName)
  /\ files.viewModel # last.viewModel

\* The directories the traversal meets, in depth-first pre-order: an
\* unreadable directory is met, the directories below it are not.
RECURSIVE MetInOrder(_)
MetInOrder(roots) ==
  IF Len(roots) = 0 THEN <<>>
  ELSE <<roots[1]>>
         \o (IF roots[1] \in unreadable THEN <<>> ELSE MetInOrder(SubDirs(roots[1])))
         \o MetInOrder(Tail(roots))

\* C16: with an unreadable directory in the tree, the search returns the
\* first readable directory with a marker among the directories the traversal
\* meets; the unreadable directory counts as one without a marker, and the
\* only error is the one of a search that met no marker at all.
C16_UnreadableTolerated ==
  (last.op = "findNameSpaces" /\ unreadable # {})
  => LET order == MetInOrder(<<last.projectPath>>)
         marked == {i \in DOMAIN order : order[i] \notin unreadable /\ HasMarker(order[i])}
     IN /\ last.result.solutionDir = IF marked = {} THEN null ELSE order[Min(marked)]
        /\ marked # {} => (last.result.error = "" /\ pc = "changeFrontend")
        /\ marked = {} =>
             last.result.error = "Solution or project file not found in workspace."

\* An unreadable directory that lists a marker file is met first; the marker
\* directory returned comes later in the order.
C16_Witness ==
  /\ last.op = "findNameSpaces"
  /\ last.result.error = ""
  /\ \E u \in unreadable :
       /\ HasMarker(u)
       /\ IsPrefix(last.projectPath, u)
       /\ \E i, j \in DOMAIN MetInOrder(<<last.projectPath>>) :
            /\ i < j
            /\ MetInOrder(<<last.projectPath>>)[i] = u
            /\ MetInOrder(<<last.projectPath>>)[j] = last.result.solutionDir

\* The command ends with the force flag.
Forced(command) ==
  Len(command) >= 8 /\ SubSeq(command, Len(command) - 7, Len(command)) = " --force"

\* The request stands before a first or a forced run of the generator.
BeforeGenerator == pc \in {"exec", "vmExec"}

BeforeForcedGenerator == pc \in {"execForce", "vmExecForce"}

\* C17: each of the two generation steps runs the generator once, and once
\* more with the force flag exactly after a first failure with the
\* 'is not restored' signature; a failure of the forced run and any other
\* failure of the first run are thrown on, and a run that succeeded is not
\* repeated.
C17_AtMostOneRetry ==
  /\ [](/\ Len(execLog) <= 4
        /\ \A i \in 1..Len(execLog) :
             Forced(execLog[i]) => (i > 1 /\ execLog[i] = execLog[i - 1] \o " --force")
        /\ \A i, j \in 1..Len(execLog) : i < j => execLog[i] # execLog[j]
        /\ BeforeForcedGenerator =>
             (Len(execLog) >= 1 /\ ~Forced(execLog[Len(execLog)]) /\ thrown = ""))
  /\ [][/\ BeforeGenerator =>
             /\ Len(execLog') = Len(execLog) + 1
             /\ ~Forced(execLog'[Len(execLog')])
             /\ pc' = "failed" => (thrown' = "Command failed" /\ files' = files)
             /\ ~BeforeGenerator'
        /\ BeforeForcedGenerator =>
             /\ execLog' = Append(execLog, execLog[Len(execLog)] \o " --force")
             /\ ~BeforeGenerator' /\ ~BeforeForcedGenerator'
             /\ pc' = "failed" => (thrown' = "Command failed" /\ files' = files)
        /\ (~BeforeGenerator /\ ~BeforeForcedGenerator) => execLog' = execLog
        /\ BeforeForcedGenerator' => BeforeGenerator
       ]_vars

\* Both generation steps ran the generator twice; the second forced run failed.
C17_Witness ==
  /\ Len(execLog) = 4
  /\ Forced(execLog[2])
  /\ Forced(execLog[4])
  /\ pc = "failed"
  /\ thrown = "Command failed"

\* The namespace the kind of the rewritten file asks for: codeNamespace for
\* the code-behind and the view-model file and for the markup file of a
\* templated control, fullNamespace for any other markup file.
NamespaceOfKind ==
  IF last.file \in {"backend", "viewModel"} THEN namespaces.csharpNameSpace
  ELSE IF req.templateType = "TemplatedControl" THEN namespaces.csharpNameSpace
  ELSE namespaces.xamlNameSpace

\* C18: every rewriting of a file puts the namespace of the file's kind into
\* the text written, between the two markers when both are found.
C18_NamespaceByFileKind ==
  (last.op = "changeFileContent" /\ ~last.threw)
  => /\ namespaces.error = ""
     /\ Present(NamespaceOfKind, files[last.file].content)
     /\ \A i \in 0..Len(last.before) :
          FirstFrom(last.args.startContent, last.before, 0, i) =>
          \A j \in (i + Len(last.args.startContent))..Len(last.before) :
          FirstFrom(last.args.endContent, last.before, i + Len(last.args.startContent), j)
          => files[last.file].content =
               SubSeq(last.before, 1, i + Len(last.args.startContent))
                 \o NamespaceOfKind
                 \o SubSeq(last.before, j + 1, Len(last.before))

\* The markup file of a templated control was rewritten between its markers,
\* and the two namespaces differ.
C18_Witness ==
  /\ last.op = "changeFileContent"
  /\ ~last.threw
  /\ last.file = "frontend"
  /\ req.templateType = "TemplatedControl"
  /\ namespaces.xamlNameSpace # namespaces.csharpNameSpace
  /\ Present("xmlns:controls=\"using:" \o namespaces.csharpNameSpace \o "\">",
             files.frontend.content)
  /\ \E i \in 0..Len(last.before) : FirstFrom(last.args.startContent, last.before, 0, i)

\* C19: whenever a root is located, it is the target directory or an
\* ancestor of it, and the namespace built holds no parent-directory segment
\* and no empty segment.
C19_RootIsAncestorOfTarget ==
  (last.op = "findNameSpaces" /\ last.result.error = "")
  => /\ IsPrefix(last.result.solutionDir, last.createPath)
     /\ ~Present("..", last.result.xamlNameSpace)

====
